---- MODULE Spec2Model ----
(***************************************************************************)
(* Model of pract1.py: NewsFetcher.fetch_news and the NewsParser pipeline  *)
(* (main and the functions it calls).                                      *)
(*                                                                         *)
(* Python objects are modelled by a heap: article dicts live in `heap`     *)
(* (reference -> dict) and every list is a sequence of references, so that *)
(* in-place mutation and aliasing between lists are what the code does.    *)
(* A dict is a function whose DOMAIN is the set of keys present.           *)
(* Strings that the code inspects (titles, descriptions, keywords) are     *)
(* sequences of one-character strings; `published` timestamps, which the   *)
(* code only compares, are integers (their order is the string order).     *)
(* Scores are in tenths: 1 stands for 0.1.                                 *)
(***************************************************************************)
EXTENDS Integers, Sequences, FiniteSets, TLC

VARIABLES
    pc,                     \* position of main, or of the function harness
    heap,                   \* reference -> article dict
    response,               \* what the HTTP layer did in the latest fetch_news call
    fetched,                \* what that call did: raised, or the dicts it returned
                            \* (no call is on record before the first one and
                            \* once main has gone on to line 244)
    vish_news, high_speed_news, russian_railways_news,
    all_articles, unique_articles, sorted_articles, analyzed_articles,
    adjusted_articles, filtered_vish, filtered_high_speed, filtered_rzd,
    final_articles, result,
    json_file, html_file,   \* the two output files: <<>> until written, then
                            \* <<content>>
    classifier_calls,       \* history: the text and the result of each classifier call
    stages,                 \* history: the stages main has entered, in order
    fn, fn_args, fn_keywords, fn_ret, fn_heap0, fn_prev, fn_calls

locals == <<vish_news, high_speed_news, russian_railways_news,
            all_articles, unique_articles, sorted_articles, analyzed_articles,
            adjusted_articles, filtered_vish, filtered_high_speed, filtered_rzd,
            final_articles, result>>
files == <<json_file, html_file>>
fetch_hist == <<response, fetched>>
fn_vars == <<fn, fn_args, fn_keywords, fn_ret, fn_heap0, fn_prev, fn_calls>>
vars == <<pc, heap, fetch_hist, locals, files, classifier_calls, stages, fn_vars>>

\* stand-ins for "no call on record" and for main's `result` before line 258
NoBody == [json |-> "none", articles |-> <<>>]
NoResponse == [kind |-> "none", body |-> NoBody]
NotFetched == [raised |-> FALSE, value |-> <<>>]
NoResult ==
    [unique_articles |-> <<>>, analyzed_articles |-> <<>>, filtered_vish |-> <<>>,
     filtered_high_speed |-> <<>>, filtered_rzd |-> <<>>, final_articles |-> <<>>]

(***************************************************************************)
(* Bounds of the model.                                                    *)
(***************************************************************************)
MaxArticles == 2        \* articles the three queries return together, in a run
MaxLen == 3             \* length of the list a function is called on

(***************************************************************************)
(* Program constants.                                                      *)
(***************************************************************************)
NeutralSubjectivity == 1        \* 0.1

\* The three keyword lists, transliterated and cut to their first letters.
keywords_vish == << <<"i", "n">>, <<"R", "U", "T">>, <<"V", "I">> >>
keywords_high_speed == << <<"V", "S", "M">>, <<"s", "k">>, <<"v", "y">> >>
keywords_rzd == << <<"R", "Z", "D">>, <<"R", "o">> >>

(***************************************************************************)
(* Dicts, lists and strings.                                               *)
(***************************************************************************)
Range(s) == {s[i] : i \in 1..Len(s)}

\* d[k] = v on a dict: adds the key or overwrites it
SetItem(d, k, v) == [x \in (DOMAIN d) \cup {k} |-> IF x = k THEN v ELSE d[x]]

\* d.get(k, default)
Get(d, k, default) == IF k \in DOMAIN d THEN d[k] ELSE default

\* the dicts a list of references stands for
Deref(h, l) == [i \in 1..Len(l) |-> h[l[i]]]

\* str.lower() on one character
LowerChar(c) ==
    CASE c = "R" -> "r" [] c = "Z" -> "z" [] c = "D" -> "d"
      [] c = "V" -> "v" [] c = "S" -> "s" [] c = "M" -> "m"
      [] c = "U" -> "u" [] c = "T" -> "t" [] c = "I" -> "i"
      [] c = "X" -> "x"
      [] OTHER -> c

\* str.lower()
Lower(s) == [i \in 1..Len(s) |-> LowerChar(s[i])]

\* sub in s
In(sub, s) ==
    \E off \in 0..(Len(s) - Len(sub)) :
        \A k \in 1..Len(sub) : s[off + k] = sub[k]

(***************************************************************************)
(* NewsFetcher.fetch_news.  `resp` is what the HTTP layer does for the     *)
(* call: kind "conn_error" (session.get raises a ConnectionError or a      *)
(* Timeout), "retry_exhausted" (a 500/502/503/504 on every attempt: the    *)
(* adapter raises RetryError out of session.get), "http_error" (a response *)
(* with another 4xx/5xx status: raise_for_status raises HTTPError) or "ok" *)
(* (a 2xx response with `body`).  The result says whether the call raised  *)
(* and, if not, the list of dicts it returned.                             *)
(***************************************************************************)
Raised == [raised |-> TRUE, value |-> <<>>]
Returned(v) == [raised |-> FALSE, value |-> v]

\* line 47: the dict built from one entry of the response
fetched_article(article) ==
    [title |-> article["title"], link |-> article["url"],
     published |-> article["publishedAt"]]

fetch_news(resp) ==
    IF resp.kind \in {"conn_error", "retry_exhausted"}
    THEN \* line 34 raises before `response` is bound; the handler reads
         \* `response` at line 38: UnboundLocalError, which nothing catches
         Raised
    ELSE IF resp.kind = "http_error"
    THEN \* line 35 raises with `response` bound: logged, line 41
         Returned(<<>>)
    ELSE IF resp.body.json = "invalid"
    THEN Raised                         \* line 43: response.json() raises
    ELSE IF resp.body.json = "null"
    THEN Raised                         \* line 47: iterating None, TypeError
    ELSE LET articles == IF resp.body.json = "no_key" THEN <<>>
                         ELSE resp.body.articles
         IN  IF \E i \in 1..Len(articles) :
                    ~({"title", "url", "publishedAt"} \subseteq DOMAIN articles[i])
             THEN Raised                \* line 47: KeyError
             ELSE Returned([i \in 1..Len(articles) |-> fetched_article(articles[i])])

(***************************************************************************)
(* Line 246: {entry['link']: entry for entry in all_articles}.values().    *)
(* A Python dict is a sequence of <<key, value>> pairs in insertion order; *)
(* storing under a key already present replaces the value in place.        *)
(***************************************************************************)
dict_setitem_first(d, k, v) ==
    IF \E i \in 1..Len(d) : d[i][1] = k
    THEN d
    ELSE Append(d, <<k, v>>)

dict_setitem(d, k, v) ==
    IF \E i \in 1..Len(d) : d[i][1] = k
    THEN [i \in 1..Len(d) |-> IF d[i][1] = k THEN <<k, v>> ELSE d[i]]
    ELSE Append(d, <<k, v>>)

RECURSIVE link_dict(_, _)
link_dict(h, articles) ==
    IF articles = <<>> THEN <<>>
    ELSE LET entry == articles[Len(articles)]
         IN  dict_setitem(link_dict(h, SubSeq(articles, 1, Len(articles) - 1)),
                          h[entry]["link"], entry)

dict_values(d) == [i \in 1..Len(d) |-> d[i][2]]

(***************************************************************************)
(* NewsParser.filter_and_sort_articles: sorted(articles, key=published,    *)
(* reverse=True).  sorted is stable, also with reverse=True: an element    *)
(* goes behind every earlier element whose key is not smaller.             *)
(***************************************************************************)
insert_sorted_ties_first(h, s, x) ==
    LET p == Cardinality({i \in 1..Len(s) : h[s[i]]["published"] > h[x]["published"]})
    IN  SubSeq(s, 1, p) \o <<x>> \o SubSeq(s, p + 1, Len(s))

insert_sorted_ascending(h, s, x) ==
    LET p == Cardinality({i \in 1..Len(s) : h[s[i]]["published"] <= h[x]["published"]})
    IN  SubSeq(s, 1, p) \o <<x>> \o SubSeq(s, p + 1, Len(s))

insert_sorted(h, s, x) ==
    LET p == Cardinality({i \in 1..Len(s) : h[s[i]]["published"] >= h[x]["published"]})
    IN  SubSeq(s, 1, p) \o <<x>> \o SubSeq(s, p + 1, Len(s))

\* sorted(articles, key=lambda x: x['published'], reverse=True)
RECURSIVE sorted_by_published(_, _)
sorted_by_published(h, articles) ==
    IF articles = <<>> THEN <<>>
    ELSE insert_sorted(h,
                       sorted_by_published(h, SubSeq(articles, 1, Len(articles) - 1)),
                       articles[Len(articles)])

\* `value` is the list returned, `articles` the argument list after the call
filter_and_sort_in_place(h, articles) ==
    [value |-> sorted_by_published(h, articles),
     articles |-> sorted_by_published(h, articles)]

filter_and_sort_articles(h, articles) ==
    [value |-> sorted_by_published(h, articles), articles |-> articles]

(***************************************************************************)
(* NewsParser.analyze_sentiment.  `results` lists what the classifier does *)
(* on its successive calls: return a label and a score, or raise. The loop *)
(* writes into the dicts of the list it was given and returns that list;   *)
(* a classifier exception leaves the earlier articles written.             *)
(***************************************************************************)
Labels == {"POSITIVE", "NEGATIVE", "NEUTRAL"}
ClassifierFailure == [raises |-> TRUE, label |-> "", score |-> 0]
ClassifierResult(label, score) == [raises |-> FALSE, label |-> label, score |-> score]

\* lines 70-73 for one article
score_article_constant(h, article, res) ==
    [h EXCEPT ![article] =
        SetItem(SetItem(h[article], "sentiment", res.label), "subjectivity", NeutralSubjectivity)]

score_article(h, article, res) ==
    [h EXCEPT ![article] =
        SetItem(SetItem(h[article], "sentiment", res.label), "subjectivity", res.score)]

RECURSIVE analyze_loop(_, _, _, _, _)
analyze_loop(h, articles, results, i, calls) ==
    IF i > Len(articles)
    THEN [raised |-> FALSE, heap |-> h, value |-> articles, calls |-> calls]
    ELSE LET title == h[articles[i]]["title"]
         IN  IF results[i].raises
             THEN [raised |-> TRUE, heap |-> h, value |-> <<>>,
                   calls |-> Append(calls, [text |-> title, result |-> results[i]])]
             ELSE analyze_loop(score_article(h, articles[i], results[i]),
                               articles, results, i + 1,
                               Append(calls, [text |-> title, result |-> results[i]]))

analyze_sentiment_copy(h, articles, results) ==
    LET n == Len(articles)
        base == Len(h)
        copied == h \o Deref(h, articles)
        fresh == [i \in 1..n |-> base + i]
        r == analyze_loop(copied, fresh, results, 1, <<>>)
    IN  IF r.raised THEN [r EXCEPT !.heap = h] ELSE r

analyze_sentiment(h, articles, results) ==
    analyze_loop(h, articles, results, 1, <<>>)

(***************************************************************************)
(* NewsParser.adjust_subjectivity: in place, returns the list it was given *)
(***************************************************************************)
adjust_article_halving(h, article) ==
    IF h[article]["sentiment"] = "NEUTRAL"
    THEN [h EXCEPT ![article] =
            SetItem(h[article], "subjectivity", h[article]["subjectivity"] \div 2)]
    ELSE h

adjust_article(h, article) ==
    IF h[article]["sentiment"] = "NEUTRAL"
    THEN [h EXCEPT ![article] = SetItem(h[article], "subjectivity", NeutralSubjectivity)]
    ELSE h

RECURSIVE adjust_loop(_, _, _)
adjust_loop(h, articles, i) ==
    IF i > Len(articles) THEN h
    ELSE adjust_loop(adjust_article(h, articles[i]), articles, i + 1)

adjust_subjectivity(h, articles) ==
    [heap |-> adjust_loop(h, articles, 1), value |-> articles]

(***************************************************************************)
(* NewsParser.filter_articles_by_keywords                                  *)
(***************************************************************************)
\* line 235, the condition of the if
keyword_match_title_only(article, keywords) ==
    LET title == Get(article, "title", <<>>)
    IN  \E k \in 1..Len(keywords) : In(Lower(keywords[k]), Lower(title))

keyword_match(article, keywords) ==
    LET title == Get(article, "title", <<>>)
        summary == Get(article, "description", <<>>)
    IN  \E k \in 1..Len(keywords) :
            \/ In(Lower(keywords[k]), Lower(title))
            \/ In(Lower(keywords[k]), Lower(summary))

filter_articles_by_keywords(h, articles, keywords) ==
    LET keep(a) == keyword_match(h[a], keywords)
    IN  SelectSeq(articles, keep)

(***************************************************************************)
(* NewsParser.create_dashboard: one <li> per entry of final_articles       *)
(***************************************************************************)
sentiment_class(sentiment) ==
    CASE sentiment = "POSITIVE" -> "sentiment-positive"
      [] sentiment = "NEGATIVE" -> "sentiment-negative"
      [] OTHER -> "sentiment-neutral"

create_dashboard(data) ==
    [i \in 1..Len(data) |->
        [class |-> sentiment_class(data[i]["sentiment"]),
         data_sentiment |-> data[i]["sentiment"],
         href |-> data[i]["link"],
         text |-> data[i]["title"],
         date |-> data[i]["published"],
         subjectivity |-> data[i]["subjectivity"]]]

(***************************************************************************)
(* What the outside world can do in a run of main.                         *)
(***************************************************************************)
BoundedSeq(S, n) == UNION {[1..k -> S] : k \in 0..n}

Links == {"l1", "l2"}
Times == {1, 2}
TitleRzd == <<"r", "z", "d">>
TitleVsm == <<"V", "S", "M">>
TitleOther == <<"x">>
Titles == {TitleRzd, TitleVsm, TitleOther}

CompleteEntries == [title : Titles, url : Links, publishedAt : Times]
EntryWithoutTitle == [url |-> "l1", publishedAt |-> 1]
RawEntries == CompleteEntries \cup {EntryWithoutTitle}

\* the outcomes of one HTTP call that returns at most `budget` articles
Responses(budget) ==
    {[kind |-> k, body |-> NoBody] : k \in {"conn_error", "retry_exhausted", "http_error"}}
    \cup {[kind |-> "ok", body |-> [json |-> j, articles |-> <<>>]] :
                j \in {"invalid", "no_key", "null"}}
    \cup {[kind |-> "ok", body |-> [json |-> "list", articles |-> a]] :
                a \in BoundedSeq(RawEntries, budget)}

\* what one classifier call can do
ClassifierResults ==
    {ClassifierResult("POSITIVE", 9), ClassifierResult("NEGATIVE", 8),
     ClassifierResult("NEUTRAL", 6), ClassifierFailure}

\* new dicts get the next free references
Alloc(h, dicts) ==
    [heap |-> h \o dicts, refs |-> [i \in 1..Len(dicts) |-> Len(h) + i]]

(***************************************************************************)
(* NewsParser.main, one action per stage.                                  *)
(***************************************************************************)
StageOrder ==
    <<"fetch_vish", "fetch_high_speed", "fetch_rzd", "dedup", "sort", "score",
      "adjust", "filter_vish", "filter_high_speed", "filter_rzd", "assemble",
      "save_json", "dashboard">>

Init ==
    /\ pc = "fetch_vish"
    /\ heap = <<>>
    /\ response = NoResponse
    /\ fetched = NotFetched
    /\ vish_news = <<>> /\ high_speed_news = <<>> /\ russian_railways_news = <<>>
    /\ all_articles = <<>> /\ unique_articles = <<>> /\ sorted_articles = <<>>
    /\ analyzed_articles = <<>> /\ adjusted_articles = <<>>
    /\ filtered_vish = <<>> /\ filtered_high_speed = <<>> /\ filtered_rzd = <<>>
    /\ final_articles = <<>>
    /\ result = NoResult
    /\ json_file = <<>> /\ html_file = <<>>
    /\ classifier_calls = <<>>
    /\ stages = <<>>
    /\ fn = "main" /\ fn_args = <<>> /\ fn_keywords = <<>> /\ fn_ret = <<>>
    /\ fn_heap0 = <<>> /\ fn_prev = <<>> /\ fn_calls = 0

\* entering the stage main is at
Enter(stage) ==
    /\ pc = stage
    /\ stages' = Append(stages, stage)

\* a call of fetch_news from main: an exception is not caught by main
CallFetch(resp, next) ==
    LET r == fetch_news(resp)
    IN  /\ response' = resp
        /\ fetched' = r
        /\ heap' = Alloc(heap, r.value).heap
        /\ pc' = IF r.raised THEN "raised" ELSE next

fetch_vish_news ==
    /\ Enter("fetch_vish")
    /\ \E resp \in Responses(MaxArticles - Len(heap)) :
            /\ CallFetch(resp, "fetch_high_speed")
            /\ vish_news' = Alloc(heap, fetch_news(resp).value).refs
    /\ UNCHANGED <<high_speed_news, russian_railways_news,
                   all_articles, unique_articles, sorted_articles, analyzed_articles,
                   adjusted_articles, filtered_vish, filtered_high_speed, filtered_rzd,
                   final_articles, result, files, classifier_calls, fn_vars>>

fetch_high_speed_railways ==
    /\ Enter("fetch_high_speed")
    /\ \E resp \in Responses(MaxArticles - Len(heap)) :
            /\ CallFetch(resp, "fetch_rzd")
            /\ high_speed_news' = Alloc(heap, fetch_news(resp).value).refs
    /\ UNCHANGED <<vish_news, russian_railways_news,
                   all_articles, unique_articles, sorted_articles, analyzed_articles,
                   adjusted_articles, filtered_vish, filtered_high_speed, filtered_rzd,
                   final_articles, result, files, classifier_calls, fn_vars>>

fetch_russian_railways ==
    /\ Enter("fetch_rzd")
    /\ \E resp \in Responses(MaxArticles - Len(heap)) :
            /\ CallFetch(resp, "dedup")
            /\ russian_railways_news' = Alloc(heap, fetch_news(resp).value).refs
    /\ UNCHANGED <<vish_news, high_speed_news,
                   all_articles, unique_articles, sorted_articles, analyzed_articles,
                   adjusted_articles, filtered_vish, filtered_high_speed, filtered_rzd,
                   final_articles, result, files, classifier_calls, fn_vars>>

\* lines 244-246
Dedup ==
    /\ Enter("dedup")
    /\ all_articles' = vish_news \o high_speed_news \o russian_railways_news
    /\ unique_articles' = dict_values(link_dict(heap, all_articles'))
    /\ pc' = "sort"
    /\ response' = NoResponse
    /\ fetched' = NotFetched
    /\ UNCHANGED <<heap, vish_news, high_speed_news, russian_railways_news,
                   sorted_articles, analyzed_articles,
                   adjusted_articles, filtered_vish, filtered_high_speed, filtered_rzd,
                   final_articles, result, files, classifier_calls, fn_vars>>

\* line 248
Sort ==
    /\ Enter("sort")
    /\ sorted_articles' = filter_and_sort_articles(heap, unique_articles).value
    /\ pc' = "score"
    /\ UNCHANGED <<heap, fetch_hist, vish_news, high_speed_news, russian_railways_news,
                   all_articles, unique_articles, analyzed_articles,
                   adjusted_articles, filtered_vish, filtered_high_speed, filtered_rzd,
                   final_articles, result, files, classifier_calls, fn_vars>>

\* where main goes after line 249
after_score_swallowing(raised) == "adjust"

after_score(raised) == IF raised THEN "raised" ELSE "adjust"

\* line 249
Score ==
    /\ Enter("score")
    /\ \E results \in [1..Len(sorted_articles) -> ClassifierResults] :
            LET r == analyze_sentiment(heap, sorted_articles, results)
            IN  /\ heap' = r.heap
                /\ classifier_calls' = classifier_calls \o r.calls
                /\ analyzed_articles' = IF r.raised THEN analyzed_articles ELSE r.value
                /\ pc' = after_score(r.raised)
    /\ UNCHANGED <<fetch_hist, vish_news, high_speed_news, russian_railways_news,
                   all_articles, unique_articles, sorted_articles,
                   adjusted_articles, filtered_vish, filtered_high_speed, filtered_rzd,
                   final_articles, result, files, fn_vars>>

\* line 250
Adjust ==
    /\ Enter("adjust")
    /\ LET r == adjust_subjectivity(heap, analyzed_articles)
       IN  /\ heap' = r.heap
           /\ adjusted_articles' = r.value
    /\ pc' = "filter_vish"
    /\ UNCHANGED <<fetch_hist, vish_news, high_speed_news, russian_railways_news,
                   all_articles, unique_articles, sorted_articles, analyzed_articles,
                   filtered_vish, filtered_high_speed, filtered_rzd,
                   final_articles, result, files, classifier_calls, fn_vars>>

\* line 252
FilterVish ==
    /\ Enter("filter_vish")
    /\ filtered_vish' = filter_articles_by_keywords(heap, adjusted_articles, keywords_vish)
    /\ pc' = "filter_high_speed"
    /\ UNCHANGED <<heap, fetch_hist, vish_news, high_speed_news, russian_railways_news,
                   all_articles, unique_articles, sorted_articles, analyzed_articles,
                   adjusted_articles, filtered_high_speed, filtered_rzd,
                   final_articles, result, files, classifier_calls, fn_vars>>

\* line 253
FilterHighSpeed ==
    /\ Enter("filter_high_speed")
    /\ filtered_high_speed' =
            filter_articles_by_keywords(heap, adjusted_articles, keywords_high_speed)
    /\ pc' = "filter_rzd"
    /\ UNCHANGED <<heap, fetch_hist, vish_news, high_speed_news, russian_railways_news,
                   all_articles, unique_articles, sorted_articles, analyzed_articles,
                   adjusted_articles, filtered_vish, filtered_rzd,
                   final_articles, result, files, classifier_calls, fn_vars>>

\* line 254
FilterRzd ==
    /\ Enter("filter_rzd")
    /\ filtered_rzd' = filter_articles_by_keywords(heap, adjusted_articles, keywords_rzd)
    /\ pc' = "assemble"
    /\ UNCHANGED <<heap, fetch_hist, vish_news, high_speed_news, russian_railways_news,
                   all_articles, unique_articles, sorted_articles, analyzed_articles,
                   adjusted_articles, filtered_vish, filtered_high_speed,
                   final_articles, result, files, classifier_calls, fn_vars>>

\* lines 256-265; list(unique_articles) is a new list of the same dicts
Assemble ==
    /\ Enter("assemble")
    /\ final_articles' = filtered_vish \o filtered_high_speed \o filtered_rzd
    /\ result' = [unique_articles |-> unique_articles,
                  analyzed_articles |-> analyzed_articles,
                  filtered_vish |-> filtered_vish,
                  filtered_high_speed |-> filtered_high_speed,
                  filtered_rzd |-> filtered_rzd,
                  final_articles |-> final_articles']
    /\ pc' = "save_json"
    /\ UNCHANGED <<heap, fetch_hist, vish_news, high_speed_news, russian_railways_news,
                   all_articles, unique_articles, sorted_articles, analyzed_articles,
                   adjusted_articles, filtered_vish, filtered_high_speed, filtered_rzd,
                   files, classifier_calls, fn_vars>>

\* json.dump(result): every list written out as the dicts it holds
save_to_json(h, res) == [k \in DOMAIN res |-> Deref(h, res[k])]

\* line 267; opening the file can fail, and main does not catch it
SaveJson ==
    /\ Enter("save_json")
    /\ \E io_ok \in BOOLEAN :
            IF io_ok
            THEN /\ json_file' = <<save_to_json(heap, result)>>
                 /\ pc' = "dashboard"
            ELSE /\ json_file' = json_file
                 /\ pc' = "raised"
    /\ UNCHANGED <<heap, fetch_hist, locals, html_file, classifier_calls, fn_vars>>

\* lines 269-270
Dashboard ==
    /\ Enter("dashboard")
    /\ \E io_ok \in BOOLEAN :
            IF io_ok
            THEN /\ html_file' = <<create_dashboard(Deref(heap, final_articles))>>
                 /\ pc' = "done"
            ELSE /\ html_file' = html_file
                 /\ pc' = "raised"
    /\ UNCHANGED <<heap, fetch_hist, locals, json_file, classifier_calls, fn_vars>>

Next ==
    \/ fetch_vish_news
    \/ fetch_high_speed_railways
    \/ fetch_russian_railways
    \/ Dedup
    \/ Sort
    \/ Score
    \/ Adjust
    \/ FilterVish
    \/ FilterHighSpeed
    \/ FilterRzd
    \/ Assemble
    \/ SaveJson
    \/ Dashboard

Spec == Init /\ [][Next]_vars

(***************************************************************************)
(* The functions of NewsParser called on their own: the argument is drawn  *)
(* at the start, the list passed holds references 1..n to the dicts of     *)
(* `heap`, and each action is one call.                                    *)
(***************************************************************************)
SortTimes == {1, 2, 3}
SortArticles == [title : {TitleOther}, link : Links, published : SortTimes]

FilterTitles == {<<"R", "Z", "D", "x">>, <<"x", "r", "z", "d">>, <<"x">>}
FilterDescriptions == {<<"V", "s", "M">>, <<"x">>}
FilterDict(has_title, t, has_description, d) ==
    LET base == [link |-> "l1"]
        with_title == IF has_title THEN SetItem(base, "title", t) ELSE base
    IN  IF has_description THEN SetItem(with_title, "description", d) ELSE with_title
FilterArticles ==
    {FilterDict(ht, t, hd, d) :
        ht \in BOOLEAN, t \in FilterTitles, hd \in BOOLEAN, d \in FilterDescriptions}
FilterKeywords ==
    { << <<"R", "Z", "D">> >>,
      << <<"x", "x">>, <<"v", "S", "m">>, <<"R", "z">> >>,
      << >> }

AdjustScores == {1, 5, 9}
AdjustArticles ==
    [title : {TitleOther}, link : {"l1"}, published : {1},
     sentiment : Labels, subjectivity : AdjustScores]

IdentityList(n) == [i \in 1..n |-> i]

InitFn ==
    /\ pc = "call"
    /\ response = NoResponse
    /\ fetched = NotFetched
    /\ vish_news = <<>> /\ high_speed_news = <<>> /\ russian_railways_news = <<>>
    /\ all_articles = <<>> /\ unique_articles = <<>> /\ sorted_articles = <<>>
    /\ analyzed_articles = <<>> /\ adjusted_articles = <<>>
    /\ filtered_vish = <<>> /\ filtered_high_speed = <<>> /\ filtered_rzd = <<>>
    /\ final_articles = <<>>
    /\ result = NoResult
    /\ json_file = <<>> /\ html_file = <<>>
    /\ classifier_calls = <<>>
    /\ stages = <<>>
    /\ fn \in {"sort", "filter", "adjust"}
    /\ heap \in BoundedSeq(CASE fn = "sort" -> SortArticles
                             [] fn = "filter" -> FilterArticles
                             [] OTHER -> AdjustArticles, MaxLen)
    /\ fn_keywords \in IF fn = "filter" THEN FilterKeywords ELSE {<<>>}
    /\ fn_args = IdentityList(Len(heap))
    /\ fn_heap0 = heap
    /\ fn_prev = heap
    /\ fn_ret = <<>>
    /\ fn_calls = 0

pipeline_vars == <<fetch_hist, locals, files, classifier_calls, stages>>

CallSort ==
    /\ pc = "call" /\ fn = "sort"
    /\ LET r == filter_and_sort_articles(heap, fn_args)
       IN  /\ fn_ret' = r.value
           /\ fn_args' = r.articles
    /\ fn_prev' = heap
    /\ fn_calls' = fn_calls + 1
    /\ pc' = "returned"
    /\ UNCHANGED <<heap, fn, fn_keywords, fn_heap0, pipeline_vars>>

CallFilter ==
    /\ pc = "call" /\ fn = "filter"
    /\ fn_ret' = filter_articles_by_keywords(heap, fn_args, fn_keywords)
    /\ fn_prev' = heap
    /\ fn_calls' = fn_calls + 1
    /\ pc' = "returned"
    /\ UNCHANGED <<heap, fn, fn_args, fn_keywords, fn_heap0, pipeline_vars>>

\* adjust_subjectivity, and then adjust_subjectivity again on what it returned
CallAdjust ==
    /\ fn = "adjust"
    /\ \/ pc = "call" /\ fn_calls = 0
       \/ pc = "returned" /\ fn_calls = 1
    /\ LET r == adjust_subjectivity(heap, IF fn_calls = 0 THEN fn_args ELSE fn_ret)
       IN  /\ heap' = r.heap
           /\ fn_ret' = r.value
    /\ fn_prev' = heap
    /\ fn_calls' = fn_calls + 1
    /\ pc' = "returned"
    /\ UNCHANGED <<fn, fn_args, fn_keywords, fn_heap0, pipeline_vars>>

NextFn ==
    \/ CallSort
    \/ CallFilter
    \/ CallAdjust

FnSpec == InitFn /\ [][NextFn]_vars

(***************************************************************************)
(* Properties.                                                             *)
(***************************************************************************)
Entered(stage) == stage \in Range(stages)
Completed(stage) == \E i \in 1..Len(stages) - 1 : stages[i] = stage
Published(h, l) == [i \in 1..Len(l) |-> h[l[i]]["published"]]
NonIncreasing(t) == \A i \in 1..Len(t) - 1 : t[i] >= t[i + 1]
Count(l, x) == Cardinality({i \in 1..Len(l) : l[i] = x})
IsPermutation(a, b) ==
    /\ Len(a) = Len(b)
    /\ \A x \in Range(a) \cup Range(b) : Count(a, x) = Count(b, x)
MainContinues == pc \in {"fetch_high_speed", "fetch_rzd", "dedup"}

\* C1: a fetch_news call whose HTTP request failed (no response received, or
\* an error status after the retries) returns an empty list without raising,
\* and main goes on to its next statement.
C1_RequestErrorGivesEmptyList ==
    response.kind \in {"conn_error", "retry_exhausted", "http_error"}
        => /\ ~fetched.raised
           /\ fetched.value = <<>>
           /\ MainContinues

\* C7: a fetch_news call that received a malformed or empty body (not JSON,
\* no 'articles' key, 'articles' null or empty, an entry lacking a field)
\* returns zero articles without raising, and main goes on.
MalformedOrEmpty(resp) ==
    /\ resp.kind = "ok"
    /\ \/ resp.body.json \in {"invalid", "no_key", "null"}
       \/ /\ resp.body.json = "list"
          /\ \/ resp.body.articles = <<>>
             \/ \E i \in 1..Len(resp.body.articles) :
                    DOMAIN resp.body.articles[i] # {"title", "url", "publishedAt"}
C7_MalformedResponseGivesNoArticles ==
    MalformedOrEmpty(response)
        => /\ ~fetched.raised
           /\ fetched.value = <<>>
           /\ MainContinues

\* C2: after line 246 unique_articles holds exactly one entry per distinct
\* link of all_articles, and that entry is the last article of all_articles
\* with the link.
LinksOf(h, l) == {h[l[i]]["link"] : i \in 1..Len(l)}
LastWithLink(h, l, link) ==
    l[CHOOSE i \in 1..Len(l) :
            /\ h[l[i]]["link"] = link
            /\ \A j \in (i + 1)..Len(l) : h[l[j]]["link"] # link]
C2_DedupKeepsLastPerLink ==
    Completed("dedup") =>
        /\ all_articles = vish_news \o high_speed_news \o russian_railways_news
        /\ Len(unique_articles) = Cardinality(LinksOf(heap, all_articles))
        /\ LinksOf(heap, unique_articles) = LinksOf(heap, all_articles)
        /\ \A i \in 1..Len(unique_articles) :
                unique_articles[i] =
                    LastWithLink(heap, all_articles, heap[unique_articles[i]]["link"])
        /\ (all_articles = <<>> => unique_articles = <<>>)

\* two articles with one link and different content went in, one came out
C2_Witness ==
    /\ pc = "sort"
    /\ Len(all_articles) = 2
    /\ Len(unique_articles) = 1
    /\ heap[all_articles[1]] # heap[all_articles[2]]

\* C3 as stated: every collection produced after the Sorter stage, final_articles
\* included, is in non-increasing order of published.
C3_AllCollectionsNonIncreasing ==
    /\ NonIncreasing(Published(heap, analyzed_articles))
    /\ NonIncreasing(Published(heap, filtered_vish))
    /\ NonIncreasing(Published(heap, filtered_high_speed))
    /\ NonIncreasing(Published(heap, filtered_rzd))
    /\ NonIncreasing(Published(heap, final_articles))

\* C3 amended: sorted_articles, analyzed_articles and the three filtered buckets
\* are in non-increasing order of published; final_articles is the three buckets
\* one after the other, ordered within each bucket only.
C3_BucketsNonIncreasing ==
    /\ NonIncreasing(Published(heap, sorted_articles))
    /\ NonIncreasing(Published(heap, analyzed_articles))
    /\ NonIncreasing(Published(heap, filtered_vish))
    /\ NonIncreasing(Published(heap, filtered_high_speed))
    /\ NonIncreasing(Published(heap, filtered_rzd))
    /\ Completed("assemble") =>
            final_articles = filtered_vish \o filtered_high_speed \o filtered_rzd

\* a run that sorted two articles of different dates, the older one first in
\* unique_articles, and put both into final_articles
C3_Witness ==
    /\ pc = "save_json"
    /\ Len(unique_articles) = 2
    /\ heap[unique_articles[1]]["published"] < heap[unique_articles[2]]["published"]
    /\ Len(final_articles) = 2

\* C4: filter_and_sort_articles returns a permutation of its argument in
\* non-increasing order of published, articles of equal published in the order
\* they had in the argument, and leaves the argument list and the dicts as
\* they were.
PositionIn(l, x) == CHOOSE i \in 1..Len(l) : l[i] = x
C4_SortIsStableDescendingPermutation ==
    (fn = "sort" /\ pc = "returned") =>
        LET input == IdentityList(Len(fn_heap0))
        IN  /\ IsPermutation(fn_ret, input)
            /\ NonIncreasing(Published(fn_heap0, fn_ret))
            /\ \A i, j \in 1..Len(fn_ret) :
                    (i < j /\ fn_heap0[fn_ret[i]]["published"] = fn_heap0[fn_ret[j]]["published"])
                        => PositionIn(input, fn_ret[i]) < PositionIn(input, fn_ret[j])
            /\ fn_args = input
            /\ heap = fn_heap0

\* three articles, two of one date after an older one: the call had to move
\* the older one behind the two and keep the two in order
C4_Witness ==
    /\ fn = "sort" /\ pc = "returned"
    /\ Len(fn_args) = 3
    /\ heap[1]["published"] < heap[2]["published"]
    /\ heap[2]["published"] = heap[3]["published"]
    /\ fn_ret = <<2, 3, 1>>

\* C5: filter_articles_by_keywords returns, in the order of the argument,
\* exactly the articles in whose title or description some keyword occurs,
\* letters compared without regard to case; a missing title or description
\* counts as the empty string.
CasePairs ==
    {<<"R", "r">>, <<"Z", "z">>, <<"D", "d">>, <<"V", "v">>, <<"S", "s">>,
     <<"M", "m">>, <<"U", "u">>, <<"T", "t">>, <<"I", "i">>, <<"X", "x">>}
SameLetter(a, b) == a = b \/ <<a, b>> \in CasePairs \/ <<b, a>> \in CasePairs
OccursIgnoringCase(sub, text) ==
    \E off \in 0..(Len(text) - Len(sub)) :
        \A k \in 1..Len(sub) : SameLetter(sub[k], text[off + k])
FieldOrEmpty(d, k) == IF k \in DOMAIN d THEN d[k] ELSE <<>>
ShouldBeKept(d, keywords) ==
    \E k \in 1..Len(keywords) :
        \/ OccursIgnoringCase(keywords[k], FieldOrEmpty(d, "title"))
        \/ OccursIgnoringCase(keywords[k], FieldOrEmpty(d, "description"))
C5_FilterKeepsExactlyMatches ==
    (fn = "filter" /\ pc = "returned") =>
        LET wanted(a) == ShouldBeKept(fn_heap0[a], fn_keywords)
        IN  /\ fn_ret = SelectSeq(fn_args, wanted)
            /\ heap = fn_heap0

\* a call that kept an article without a title for its description, an
\* article without a description for its title in another case, and dropped a
\* third
C5_Witness ==
    /\ fn = "filter" /\ pc = "returned"
    /\ Len(fn_args) = 3
    /\ Len(fn_ret) = 2
    /\ \E i \in 1..2 : "title" \notin DOMAIN heap[fn_ret[i]]
    /\ \E i \in 1..2 : /\ "description" \notin DOMAIN heap[fn_ret[i]]
                       /\ "title" \in DOMAIN heap[fn_ret[i]]
                       /\ \A k \in 1..Len(fn_keywords) :
                                ~In(fn_keywords[k], heap[fn_ret[i]]["title"])

\* C6: adjust_subjectivity sets subjectivity to 0.1 on every NEUTRAL article,
\* changes nothing else, returns the list it was given, and a second call
\* changes nothing at all.
C6_AdjustNeutralOnlyAndIdempotent ==
    (fn = "adjust" /\ fn_calls >= 1) =>
        /\ Len(heap) = Len(fn_heap0)
        /\ fn_ret = fn_args
        /\ \A a \in 1..Len(heap) :
                /\ DOMAIN heap[a] = DOMAIN fn_heap0[a]
                /\ \A k \in DOMAIN heap[a] \ {"subjectivity"} : heap[a][k] = fn_heap0[a][k]
                /\ heap[a]["subjectivity"] =
                        IF fn_heap0[a]["sentiment"] = "NEUTRAL" THEN NeutralSubjectivity
                        ELSE fn_heap0[a]["subjectivity"]
        /\ fn_calls = 2 => heap = fn_prev

\* two calls on a NEUTRAL article of another score beside an article that is
\* not NEUTRAL
C6_Witness ==
    /\ fn = "adjust" /\ fn_calls = 2
    /\ \E a, b \in 1..Len(heap) :
            /\ fn_heap0[a]["sentiment"] = "NEUTRAL"
            /\ fn_heap0[a]["subjectivity"] = 9
            /\ fn_heap0[b]["sentiment"] = "NEGATIVE"
            /\ fn_heap0[b]["subjectivity"] = 5

\* C8: main enters its stages in the order of StageOrder, each once and none
\* skipped; once a stage has failed nothing more runs and no file is written;
\* and a file is written only after the classifier has scored every article.
IsPrefix(a, b) == Len(a) <= Len(b) /\ a = SubSeq(b, 1, Len(a))
ScoringComplete ==
    /\ Completed("score")
    /\ Len(classifier_calls) = Len(unique_articles)
    /\ \A i \in 1..Len(classifier_calls) : ~classifier_calls[i].result.raises
    /\ \A a \in Range(unique_articles) : "sentiment" \in DOMAIN heap[a]
StagesInOrder ==
    /\ IsPrefix(stages, StageOrder)
    /\ pc \notin {"raised", "done"} => pc = StageOrder[Len(stages) + 1]
    /\ pc = "done" => stages = StageOrder
    /\ html_file # <<>> => json_file # <<>>
    /\ (json_file # <<>> \/ html_file # <<>>) => ScoringComplete
C8_StagesRunInOrderAndFailureAborts ==
    /\ []StagesInOrder
    /\ [][pc = "raised" => UNCHANGED vars]_vars
    /\ [][stages' # stages => (pc \notin {"raised", "done"} /\ stages' = Append(stages, pc))]_vars

\* the classifier scored one article and raised on the second: main stopped
\* with no file written
C8_Witness ==
    /\ pc = "raised"
    /\ stages[Len(stages)] = "score"
    /\ Len(classifier_calls) = 2
    /\ "sentiment" \in DOMAIN heap[sorted_articles[1]]
    /\ json_file = <<>> /\ html_file = <<>>

\* C9: when the Score stage has completed, the classifier has been called once
\* per article of unique_articles, on the title, and each article of
\* analyzed_articles has the label of its call as sentiment and (until Adjust
\* runs) the score of its call as subjectivity; from then on every article of
\* analyzed_articles, of the buckets and of final_articles has both fields.
Scored == pc = "adjust" \/ Entered("adjust")
C10_BundleSharesRecords ==
    Completed("assemble") =>
        /\ \A a \in Range(result.unique_articles) :
                /\ {"sentiment", "subjectivity"} \subseteq DOMAIN heap[a]
                /\ heap[a]["sentiment"] = "NEUTRAL"
                        => heap[a]["subjectivity"] = NeutralSubjectivity
        /\ Range(result.unique_articles) = Range(result.analyzed_articles)
        /\ IsPermutation(Deref(heap, result.unique_articles),
                         Deref(heap, result.analyzed_articles))
        /\ \A k \in {"filtered_vish", "filtered_high_speed", "filtered_rzd", "final_articles"} :
                Range(result[k]) \subseteq Range(result.analyzed_articles)
        /\ json_file # <<>> =>
                IsPermutation(json_file[1].unique_articles, json_file[1].analyzed_articles)

\* a finished run whose two articles are in the bundle in two different
\* orders, one of them NEUTRAL and in a bucket
C10_Witness ==
    /\ pc = "done"
    /\ Len(result.unique_articles) = 2
    /\ result.unique_articles # result.analyzed_articles
    /\ \E a \in Range(result.final_articles) : heap[a]["sentiment"] = "NEUTRAL"

====
